---- MODULE Spec2Model ----
(***************************************************************************)
(* Model of pycroscopy.processing.cluster: the Cluster process class       *)
(* (construction, test, compute, delete_results, the mean response and the *)
(* write of a result group) and the function reorder_clusters.             *)
(*                                                                         *)
(* Conventions                                                             *)
(*   - Python's None is the empty sequence << >> for an array and 0 for a  *)
(*     group handle; a group handle is the group's index in `groups`.      *)
(*   - Column indices and cluster labels are 0-based, as in the source;    *)
(*     a TLA+ sequence holding an array therefore has element i of the     *)
(*     array at index i+1.                                                 *)
(*   - The dataset is real valued, so data_transform_func and              *)
(*     stack_real_to_target_dtype are the identity on it.                  *)
(***************************************************************************)
EXTENDS Integers, Sequences, FiniteSets, TLC

(***************************************************************************)
(* Bounds of the model.                                                    *)
(***************************************************************************)
\* number of position rows of the dataset, h5_main.shape[0]
NumPos == 3
\* number of feature columns of the dataset, h5_main.shape[1]
NumFeat == 4
\* length of the fastest spectroscopic dimension of the dataset
SpecWidth == 2
\* n_clusters of the estimators given to the constructor
NumClusters == 3
\* result groups the storage holds at most
MaxGroups == 2
\* runner objects alive at the same time
NumRunners == 2

Positions == 1..NumPos
Columns == 0..(NumFeat - 1)
Runners == 1..NumRunners

VARIABLES
    runner,      \* runner[r]: the fields of the Cluster object in slot r
    est_n_jobs,  \* est_n_jobs[t]: the n_jobs field of the estimator object of type t
    groups,      \* the result groups in the HDF5 file, in order of creation
    out          \* what the last call did: its arguments, its result or its exception

vars == <<runner, est_n_jobs, groups, out>>

None == << >>
NoGroup == 0

Min(a, b) == IF a < b THEN a ELSE b
Max(a, b) == IF a < b THEN b ELSE a
Abs(a) == IF a < 0 THEN 0 - a ELSE a

(***************************************************************************)
(* The dataset h5_main.                                                    *)
(***************************************************************************)
\* h5_main[p, f]: every row is its position's value shifted by the column's
\* offset, so two rows differ by the same amount in every column
PosVal(p) == p * p
ColOffset(f) == 10 * f
Data(p, f) == PosVal(p) + ColOffset(f)

\* h5_main.h5_spec_inds[:, f]: the coordinates of column f in a grid whose
\* fastest dimension has SpecWidth points
SpecInds(f) == <<f % SpecWidth, f \div SpecWidth>>

(***************************************************************************)
(* Python's slice and range.                                               *)
(***************************************************************************)
\* len(range(start, stop, step)) for step > 0
RangeLen(start, stop, step) ==
    IF stop > start THEN (stop - start + step - 1) \div step ELSE 0

\* list(range(start, stop, step))
RangeSeq(start, stop, step) ==
    [i \in 1..RangeLen(start, stop, step) |-> start + (i - 1) * step]

\* slice(start, stop, step).indices(total) for 0 <= start, 0 <= stop, 0 < step
SliceIndices(s, total) ==
    [start |-> Min(s.start, total), stop |-> Min(s.stop, total), step |-> s.step]

(***************************************************************************)
(* The num_comps argument of the constructor.                              *)
(***************************************************************************)
NoList == << >>
SelNone == [kind |-> "none", start |-> 0, stop |-> 0, step |-> 1, inds |-> NoList]
SelInt(n) == [kind |-> "int", start |-> 0, stop |-> n, step |-> 1, inds |-> NoList]
SelSlice(a, b, c) == [kind |-> "slice", start |-> a, stop |-> b, step |-> c, inds |-> NoList]
SelList(l) == [kind |-> "list", start |-> 0, stop |-> 0, step |-> 1, inds |-> l]

\* get_component_slice(components, total_components): the slice or the list
\* of columns and their number; err when the selection does not fit
get_component_slice(components, total) ==
    CASE components.kind = "none" ->
            [err |-> FALSE, is_slice |-> TRUE, start |-> 0, stop |-> total,
             step |-> 1, inds |-> NoList, num |-> total]
      [] components.kind = "int" ->
            [err |-> components.stop < 1 \/ components.stop > total,
             is_slice |-> TRUE, start |-> 0, stop |-> components.stop,
             step |-> 1, inds |-> NoList, num |-> components.stop]
      [] components.kind = "slice" ->
            [err |-> FALSE, is_slice |-> TRUE, start |-> components.start,
             stop |-> components.stop, step |-> components.step, inds |-> NoList,
             num |-> RangeLen(Min(components.start, total),
                              Min(components.stop, total), components.step)]
      [] OTHER ->
            [err |-> \E i \in 1..Len(components.inds) :
                         components.inds[i] < 0 \/ components.inds[i] >= total,
             is_slice |-> FALSE, start |-> 0, stop |-> 0, step |-> 1,
             inds |-> components.inds, num |-> Len(components.inds)]

\* the columns h5_main[:, comp_slice] reads, in order
SliceCols(comp_slice, total) ==
    IF comp_slice.is_slice
    THEN LET inds == SliceIndices(comp_slice, total)
         IN  RangeSeq(inds.start, inds.stop, inds.step)
    ELSE comp_slice.inds

(***************************************************************************)
(* Cluster.__init__: the spectral_components entry of parms_dict.          *)
(***************************************************************************)
AttrAll == [kind |-> "all", start |-> 0, stop |-> 0, step |-> 1, inds |-> NoList]
AttrInt(n) == [kind |-> "int", start |-> 0, stop |-> n, step |-> 1, inds |-> NoList]
AttrRange(a, b, c) == [kind |-> "range", start |-> a, stop |-> b, step |-> c, inds |-> NoList]
AttrList(l) == [kind |-> "list", start |-> 0, stop |-> 0, step |-> 1, inds |-> l]
\* comp_attr is read before any assignment: UnboundLocalError
AttrUnbound == [kind |-> "unbound", start |-> 0, stop |-> 0, step |-> 1, inds |-> NoList]

comp_attr(num_comps, comp_slice, total) ==
    LET first == IF num_comps.kind = "none" THEN AttrAll ELSE AttrUnbound
    IN  IF comp_slice.is_slice
        THEN LET inds == SliceIndices(comp_slice, total)
             IN  IF inds.start = 0 /\ inds.step = 1
                 THEN IF inds.stop >= total - 1 THEN AttrAll ELSE AttrInt(inds.stop)
                 ELSE AttrRange(inds.start, inds.stop, inds.step)
        ELSE IF first.kind = "unbound" THEN AttrUnbound
        ELSE IF first = AttrAll THEN first
        ELSE AttrList(comp_slice.inds)
(***************************************************************************)
(* Cluster._get_mean_response.                                             *)
(***************************************************************************)
RECURSIVE Gcd(_, _)
Gcd(a, b) == IF b = 0 THEN a ELSE Gcd(b, a % b)

RECURSIVE LcmUpTo(_)
LcmUpTo(n) == IF n <= 1 THEN 1 ELSE (LcmUpTo(n - 1) * n) \div Gcd(LcmUpTo(n - 1), n)

\* a mean over at most NumPos rows is a whole number of 1/MeanScale: the
\* model holds every mean response in that unit
MeanScale == LcmUpTo(NumPos)

\* np.mean of an empty chunk
NaN == -1

RECURSIVE SumOver(_, _)
SumOver(S, f) ==
    IF S = {} THEN 0
    ELSE LET p == CHOOSE q \in S : TRUE IN Data(p, f) + SumOver(S \ {p}, f)

\* a count of the clusters by the largest label
NumLabelsByMax(labels) ==
    1 + (CHOOSE m \in {labels[p] : p \in DOMAIN labels} :
            \A p \in DOMAIN labels : labels[p] <= m)

\* len(np.unique(labels))
NumUnique(labels) == Cardinality({labels[p] : p \in DOMAIN labels})

\* __mean_resp_for_cluster(clust_ind, h5_raw, labels_vec, data_slice, xform_func)
mean_resp_for_cluster(clust_ind, labels_vec, cols) ==
    LET targ_pos == {p \in DOMAIN labels_vec : labels_vec[p] = clust_ind}
    IN  [j \in 1..Len(cols) |->
            IF targ_pos = {} THEN NaN
            ELSE (SumOver(targ_pos, cols[j]) * MeanScale) \div Cardinality(targ_pos)]

\* parallel_compute returns the rows in the order of np.arange(num_clusts)
get_mean_response(labels, cols) ==
    [c \in 1..NumUnique(labels) |-> mean_resp_for_cluster(c - 1, labels, cols)]

\* the results of the workers taken in the order the workers completed
parallel_compute_by_completion(pool) == [i \in 1..Len(pool) |-> pool[i].res]

\* parallel_compute(np.arange(num_clusts), __mean_resp_for_cluster, ...): the
\* list of the results of the workers, each at the place of its cluster index
parallel_compute(pool) ==
    [c \in 1..Len(pool) |->
        pool[CHOOSE i \in DOMAIN pool : pool[i].clust_ind = c - 1].res]

(***************************************************************************)
(* scipy's pdist and linkage(distance_mat, 'weighted'), as reorder_clusters *)
(* uses them.                                                              *)
(***************************************************************************)
RECURSIVE Pow2(_)
Pow2(n) == IF n <= 0 THEN 1 ELSE 2 * Pow2(n - 1)

HasNaN(mean_response) ==
    \E c \in DOMAIN mean_response : \E j \in DOMAIN mean_response[c] :
        mean_response[c][j] = NaN

RECURSIVE SumSq(_, _, _)
SumSq(a, b, j) ==
    IF j = 0 THEN 0 ELSE (a[j] - b[j]) * (a[j] - b[j]) + SumSq(a, b, j - 1)

\* the Euclidean distance of two rows in units of sqrt(number of columns):
\* rows of this dataset differ by the same amount in every column
RowDist(a, b) ==
    LET sq == SumSq(a, b, Len(a))
    IN  CHOOSE d \in {Abs(a[j] - b[j]) : j \in DOMAIN a} : d * d * Len(a) = sq

\* pdist(mean_response) as a square matrix over cluster indices 0..n-1, every
\* distance times 2^n so that the halvings of the weighted linkage stay whole
pdist(mean_response) ==
    LET n == Len(mean_response)
    IN  [i \in 0..(n - 1), j \in 0..(n - 1) |->
            RowDist(mean_response[i + 1], mean_response[j + 1]) * Pow2(n)]

Active(size, n) == {i \in 0..(n - 1) : size[i] > 0}

\* the nearest-neighbour chain grown until its last two elements are mutual
\* nearest neighbours; a distance has to be strictly smaller to replace the
\* previous element of the chain, and the smallest index wins a tie
RECURSIVE GrowChain(_, _, _, _)
GrowChain(chain, D, size, n) ==
    LET x == chain[Len(chain)]
        cand == Active(size, n) \ {x}
        m == CHOOSE d \in {D[x, i] : i \in cand} : \A i \in cand : d <= D[x, i]
        first == CHOOSE i \in cand : D[x, i] = m /\ \A k \in cand : D[x, k] = m => i <= k
        y == IF Len(chain) > 1 /\ m >= D[x, chain[Len(chain) - 1]]
             THEN chain[Len(chain) - 1] ELSE first
    IN  IF Len(chain) > 1 /\ y = chain[Len(chain) - 1]
        THEN chain
        ELSE GrowChain(Append(chain, y), D, size, n)

\* the cluster the chain starts from when it is empty: the first active one
ChainStart(chain, size, n) ==
    IF chain = << >>
    THEN <<CHOOSE i \in Active(size, n) : \A j \in Active(size, n) : i <= j>>
    ELSE chain

\* size[x] = 0; size[y] = nx + ny
MergedSize(size, x, y) == [size EXCEPT ![x] = 0, ![y] = size[x] + size[y]]

\* the distance of every active cluster i to the merged cluster (kept at y):
\* the weighted linkage takes the mean of the distances of i to x and to y
MergedDist(D, size2, x, y, n) ==
    [i \in 0..(n - 1), j \in 0..(n - 1) |->
        IF i # j /\ j = y /\ size2[i] > 0 THEN (D[i, x] + D[i, y]) \div 2
        ELSE IF i # j /\ i = y /\ size2[j] > 0 THEN (D[j, x] + D[j, y]) \div 2
        ELSE D[i, j]]

\* nn_chain: n - 1 merges, each of the last two clusters x < y of the grown
\* chain; the merged cluster stays at the larger index y
RECURSIVE NNChain(_, _, _, _, _, _)
NNMerge(k, grown, x, y, D, size, Z, n) ==
    NNChain(k + 1, SubSeq(grown, 1, Len(grown) - 2),
            MergedDist(D, MergedSize(size, x, y), x, y, n), MergedSize(size, x, y),
            Append(Z, <<x, y, D[x, y]>>), n)

NNGrown(k, grown, D, size, Z, n) ==
    NNMerge(k, grown, Min(grown[Len(grown)], grown[Len(grown) - 1]),
            Max(grown[Len(grown)], grown[Len(grown) - 1]), D, size, Z, n)

NNChain(k, chain, D, size, Z, n) ==
    IF k = n - 1 THEN Z
    ELSE NNGrown(k, GrowChain(ChainStart(chain, size, n), D, size, n), D, size, Z, n)

\* np.argsort(Z[:, 2], kind='mergesort'): a stable sort by distance
RECURSIVE InsertByDist(_, _)
InsertByDist(sorted, row) ==
    IF sorted = << >> THEN <<row>>
    ELSE IF sorted[Len(sorted)][3] <= row[3] THEN Append(sorted, row)
    ELSE Append(InsertByDist(SubSeq(sorted, 1, Len(sorted) - 1), row), sorted[Len(sorted)])

RECURSIVE SortByDist(_)
SortByDist(Z) ==
    IF Z = << >> THEN << >>
    ELSE InsertByDist(SortByDist(SubSeq(Z, 1, Len(Z) - 1)), Z[Len(Z)])

\* label(): row i names the clusters it merges by their current ids (a leaf
\* by its index, the cluster formed by row i by n + i), smaller id first
RECURSIVE LabelRows(_, _, _, _)
LabelRows(Z, i, cid, n) ==
    IF i > Len(Z) THEN << >>
    ELSE LET xr == cid[Z[i][1]]
             yr == cid[Z[i][2]]
         IN  <<<<Min(xr, yr), Max(xr, yr), Z[i][3]>>>>
             \o LabelRows(Z, i + 1,
                          [l \in 0..(n - 1) |->
                              IF cid[l] = xr \/ cid[l] = yr THEN n + i - 1 ELSE cid[l]], n)

\* linkage(pdist(mean_response), 'weighted'): rows <<child, child, distance>>
linkage(mean_response) ==
    LET n == Len(mean_response)
    IN  LabelRows(SortByDist(NNChain(0, << >>, pdist(mean_response),
                                     [i \in 0..(n - 1) |-> 1], << >>, n)),
                  1, [l \in 0..(n - 1) |-> l], n)

(***************************************************************************)
(* reorder_clusters.                                                       *)
(***************************************************************************)
\* a walk that takes the first child of every linkage row only
new_cluster_order_first_child(linkage_pairing, num_clusters) ==
    [i \in 1..Len(SelectSeq(linkage_pairing, LAMBDA row : row[1] < num_clusters)) |->
        SelectSeq(linkage_pairing, LAMBDA row : row[1] < num_clusters)[i][1]]

\* a walk over the linkage rows from the last one to the first
RECURSIVE new_cluster_order_reversed(_, _)
new_cluster_order_reversed(linkage_pairing, num_clusters) ==
    IF linkage_pairing = << >> THEN << >>
    ELSE new_cluster_order_reversed(Tail(linkage_pairing), num_clusters)
         \o (IF linkage_pairing[1][1] < num_clusters
             THEN <<linkage_pairing[1][1]>> ELSE << >>)
         \o (IF linkage_pairing[1][2] < num_clusters
             THEN <<linkage_pairing[1][2]>> ELSE << >>)

\* the loop over the linkage rows that collects the leaves
RECURSIVE new_cluster_order(_, _)
new_cluster_order(linkage_pairing, num_clusters) ==
    IF linkage_pairing = << >> THEN << >>
    ELSE LET row == linkage_pairing[1]
         IN  (IF row[1] < num_clusters THEN <<row[1]>> ELSE << >>)
             \o (IF row[2] < num_clusters THEN <<row[2]>> ELSE << >>)
             \o new_cluster_order(Tail(linkage_pairing), num_clusters)

\* a loop that relabels the positions and leaves the rows where they were
RelabelLoopLabelsOnly(labels, mean_response, order) ==
    [err |-> FALSE,
     labels |-> [p \in DOMAIN labels |->
                    (CHOOSE i \in DOMAIN order : order[i] = labels[p]) - 1],
     mean |-> mean_response]

\* the loop "for old_clust_ind, new_clust_ind in enumerate(new_cluster_order)":
\* a later assignment overwrites an earlier one, arrays start as zeros
RelabelLoop(labels, mean_response, order) ==
    LET Hits(v) == {i \in DOMAIN order : order[i] = v}
        Last(S) == CHOOSE i \in S : \A k \in S : k <= i
    IN  [err |-> FALSE,
         labels |-> [p \in DOMAIN labels |->
                        IF Hits(labels[p]) = {} THEN 0 ELSE Last(Hits(labels[p])) - 1],
         mean |-> [c \in DOMAIN mean_response |->
                        IF c \in DOMAIN order THEN mean_response[order[c] + 1]
                        ELSE [j \in DOMAIN mean_response[c] |-> 0]]]

\* reorder_clusters(labels, mean_response): linkage raises ValueError on an
\* empty distance matrix (one cluster) and on a distance that is not finite
reorder_clusters(labels, mean_response) ==
    IF Len(mean_response) < 2 \/ HasNaN(mean_response)
    THEN [err |-> TRUE, labels |-> labels, mean |-> mean_response]
    ELSE RelabelLoop(labels, mean_response,
                     new_cluster_order(linkage(mean_response), Len(mean_response)))
(***************************************************************************)
(* reshape_to_n_dims, as Cluster.test uses it.                             *)
(***************************************************************************)
\* the number of points of the grid spanned by the coordinates of some columns
GridSize(coords) ==
    Cardinality({coords[i][1] : i \in DOMAIN coords})
        * Cardinality({coords[i][2] : i \in DOMAIN coords})

\* h5_main.h5_spec_inds[:, :num_comps]
SpecPrefix(num_comps) == [i \in 1..num_comps |-> SpecInds(i - 1)]

\* reshape_to_n_dims(mean_resp, h5_spec=..., h5_pos=arange): the centroids
\* over the coordinates handed in, and whether those coordinates fill a grid
\* of as many points as the centroids have columns
reshape_centroids(mean_resp, spec) ==
    [success |-> GridSize(spec) = Len(spec) /\ Len(mean_resp[1]) = Len(spec),
     vals |-> mean_resp, spec |-> spec]

\* reshape_to_n_dims(labels, h5_pos=h5_pos_inds, h5_spec=[[0]]) and np.squeeze:
\* the positions of the dataset lie on a line, one label per position
reshape_labels(labels) ==
    [success |-> Len(labels) = NumPos, vals |-> labels]

(***************************************************************************)
(* The estimators, the result groups and the runner objects.               *)
(***************************************************************************)
allowed_methods == {"AgglomerativeClustering", "Birch", "KMeans",
                    "MiniBatchKMeans", "SpectralClustering"}

\* a group of the file: what has been written into it so far
EmptyGroup ==
    [provenance |-> FALSE, attrs |-> None, Labels |-> None, spec_dsets |-> None,
     Mean_Response |-> None, completed_positions |-> None, last_pixel |-> 0]

NoParms == [cluster_algorithm |-> "", spectral_components |-> AttrUnbound,
            n_clusters |-> 0, n_jobs |-> 0]

NoSlice == [err |-> FALSE, is_slice |-> TRUE, start |-> 0, stop |-> 0, step |-> 1,
            inds |-> NoList, num |-> 0]

\* the slot of a runner that has not been constructed
NoRunner ==
    [constructed |-> FALSE, method_name |-> "", cores |-> 0, num_comps |-> 0,
     data_slice |-> NoSlice, parms_dict |-> NoParms,
     duplicate_h5_groups |-> << >>, partial_h5_groups |-> << >>,
     labels |-> None, mean_resp |-> None, h5_results_grp |-> NoGroup]

\* what the call before the last one was and how it ended
NoPrev == [op |-> "", r |-> 0, raised |-> "", fitted |-> FALSE, wrote |-> NoGroup]

PrevOf(o) == [op |-> o.op, r |-> o.r, raised |-> o.raised, fitted |-> o.fitted,
              wrote |-> o.wrote]

\* what a call reports: `raised` is "" when it returned; `tested` says that
\* compute called test, `fail_at` names the write that raised, `arg_labels`
\* and `arg_mean` are the arguments of a call of reorder_clusters, `pool` the
\* results of the workers of parallel_compute in the order they completed,
\* `dup_checked` says that a constructor called _check_for_duplicates,
\* `fit_labels` is results.labels_ of the fit the call made
NoOut ==
    [op |-> "", r |-> 0, raised |-> "", estimator |-> "", num_comps |-> SelNone, cores |-> 0,
     rearrange_clusters |-> FALSE, override |-> FALSE,
     fitted |-> FALSE, fit_cols |-> None, mean_cols |-> None,
     ret_labels |-> None, ret_centroids |-> None, ret_spec |-> None,
     tested |-> FALSE, fail_at |-> "", ret_group |-> NoGroup, wrote |-> NoGroup,
     arg_labels |-> None, arg_mean |-> None, pool |-> << >>, dup_checked |-> FALSE,
     fit_labels |-> None, prev |-> NoPrev]

(***************************************************************************)
(* Process._check_for_duplicates, called by Cluster.__init__.              *)
(***************************************************************************)
CompleteMarker == [p \in Positions |-> 1]

\* the groups whose attributes equal every entry of parms_dict
Matching(parms_dict, grps) ==
    {g \in DOMAIN grps : grps[g].attrs = <<parms_dict>>}

RECURSIVE SetToSeq(_)
SetToSeq(S) ==
    IF S = {} THEN << >>
    ELSE LET m == CHOOSE x \in S : \A y \in S : x <= y
         IN  <<m>> \o SetToSeq(S \ {m})

\* the matching groups marked complete, and the other matching groups
check_for_duplicates(parms_dict, grps) ==
    LET match == Matching(parms_dict, grps)
        done == {g \in match : grps[g].completed_positions = CompleteMarker}
    IN  [duplicate |-> SetToSeq(done), partial |-> SetToSeq(match \ done)]

(***************************************************************************)
(* Cluster.__init__.                                                       *)
(***************************************************************************)
\* the object the constructor builds, or the exception it raises
init_allowed(estimator, num_comps, cores, grps) ==
    LET sel == get_component_slice(num_comps, NumFeat)
        attr == comp_attr(num_comps, sel, NumFeat)
        parms == [cluster_algorithm |-> estimator, spectral_components |-> attr,
                  n_clusters |-> NumClusters, n_jobs |-> cores]
        found == check_for_duplicates(parms, grps)
    IN  IF sel.err
        THEN [raised |-> "ValueError", n_jobs_set |-> FALSE, dup_checked |-> FALSE,
              obj |-> NoRunner]
        ELSE IF attr.kind = "unbound"
        THEN [raised |-> "UnboundLocalError", n_jobs_set |-> FALSE, dup_checked |-> FALSE,
              obj |-> NoRunner]
        ELSE [raised |-> "", n_jobs_set |-> TRUE, dup_checked |-> TRUE,
              obj |-> [constructed |-> TRUE, method_name |-> estimator, cores |-> cores,
                       num_comps |-> sel.num, data_slice |-> sel, parms_dict |-> parms,
                       duplicate_h5_groups |-> found.duplicate,
                       partial_h5_groups |-> found.partial,
                       labels |-> None, mean_resp |-> None, h5_results_grp |-> NoGroup]]

\* a constructor that sets estimator.n_jobs before it looks at the type
init_n_jobs_first(estimator, num_comps, cores, grps) ==
    IF estimator \notin allowed_methods
    THEN [raised |-> "TypeError", n_jobs_set |-> TRUE, dup_checked |-> FALSE,
          obj |-> NoRunner]
    ELSE init_allowed(estimator, num_comps, cores, grps)

\* Cluster.__init__: lines 69-71 raise for an estimator outside the list
\* before anything else is done
init(estimator, num_comps, cores, grps) ==
    IF estimator \notin allowed_methods
    THEN [raised |-> "TypeError", n_jobs_set |-> FALSE, dup_checked |-> FALSE,
          obj |-> NoRunner]
    ELSE init_allowed(estimator, num_comps, cores, grps)

\* runner slot r := Cluster(h5_main, estimator, num_comps, cores=cores); a
\* constructor that raises leaves the slot as it was
Construct(r, estimator, num_comps, cores) ==
    \E res \in {init(estimator, num_comps, cores, groups)} :
        /\ runner' = IF res.raised = "" THEN [runner EXCEPT ![r] = res.obj] ELSE runner
        /\ est_n_jobs' = IF res.n_jobs_set THEN [est_n_jobs EXCEPT ![estimator] = cores]
                         ELSE est_n_jobs
        /\ groups' = groups
        /\ out' = [NoOut EXCEPT !.op = "construct", !.r = r, !.raised = res.raised,
                      !.estimator = estimator, !.num_comps = num_comps, !.cores = cores,
                      !.dup_checked = res.dup_checked, !.prev = PrevOf(out)]

(***************************************************************************)
(* Cluster.test.                                                           *)
(***************************************************************************)
\* a test that stores the labels only after reorder_clusters has returned
test_return_labels_late(rn, cols, cached, labels_mat, centroid_mat) ==
    [obj |-> [rn EXCEPT !.h5_results_grp = NoGroup,
                        !.labels = IF cached.err THEN rn.labels ELSE cached.labels,
                        !.mean_resp = cached.mean],
     raised |-> IF ~cached.err /\ labels_mat.success /\ centroid_mat.success
                THEN "" ELSE "ValueError",
     fitted |-> TRUE, called |-> TRUE, fit_cols |-> cols, mean_cols |-> cols,
     ret_labels |-> IF ~cached.err /\ labels_mat.success /\ centroid_mat.success
                    THEN labels_mat.vals ELSE None,
     ret_centroids |-> IF ~cached.err /\ labels_mat.success /\ centroid_mat.success
                       THEN centroid_mat.vals ELSE None,
     ret_spec |-> IF cached.err THEN None ELSE centroid_mat.spec]

\* lines 181-193: the reshapes and the return; a reshape that fails raises
test_return(rn, cols, cached, labels_mat, centroid_mat) ==
    [obj |-> [rn EXCEPT !.h5_results_grp = NoGroup,
                        !.labels = cached.labels, !.mean_resp = cached.mean],
     raised |-> IF ~cached.err /\ labels_mat.success /\ centroid_mat.success
                THEN "" ELSE "ValueError",
     fitted |-> TRUE, called |-> TRUE, fit_cols |-> cols, mean_cols |-> cols,
     ret_labels |-> IF ~cached.err /\ labels_mat.success /\ centroid_mat.success
                    THEN labels_mat.vals ELSE None,
     ret_centroids |-> IF ~cached.err /\ labels_mat.success /\ centroid_mat.success
                       THEN centroid_mat.vals ELSE None,
     ret_spec |-> IF cached.err THEN None ELSE centroid_mat.spec]

test_reshape(rn, cols, cached) ==
    test_return(rn, cols, cached, reshape_labels(cached.labels),
                reshape_centroids(cached.mean, SpecPrefix(rn.num_comps)))

\* lines 172-178: the mean response and the labels are stored, then replaced
\* by the reordered ones; reorder_clusters raising leaves the stored ones
test_rearrange(rn, rearrange_clusters, cols, labels, mean_resp) ==
    IF rearrange_clusters
    THEN test_reshape(rn, cols, reorder_clusters(labels, mean_resp))
    ELSE test_reshape(rn, cols, [err |-> FALSE, labels |-> labels, mean |-> mean_resp])

\* lines 167-172: the fit on h5_main[data_slice] and the mean response
test_fit(rn, rearrange_clusters, cols, fit_labels) ==
    test_rearrange(rn, rearrange_clusters, cols, fit_labels,
                   get_mean_response(fit_labels, cols))

\* lines 154-159: the results of the last duplicate group are returned
test_cached(rn, grps, h5_results_grp) ==
    [obj |-> [rn EXCEPT !.h5_results_grp = h5_results_grp],
     raised |-> "", fitted |-> FALSE, called |-> TRUE, fit_cols |-> None,
     mean_cols |-> None,
     ret_labels |-> reshape_labels(grps[h5_results_grp].Labels).vals,
     ret_centroids |-> grps[h5_results_grp].Mean_Response,
     ret_spec |-> grps[h5_results_grp].spec_dsets]

\* a test that takes the first of the duplicate groups
test_first_duplicate(rn, grps, rearrange_clusters, override, fit_labels) ==
    IF ~override /\ Len(rn.duplicate_h5_groups) > 0
    THEN test_cached(rn, grps, rn.duplicate_h5_groups[1])
    ELSE test_fit(rn, rearrange_clusters, SliceCols(rn.data_slice, NumFeat), fit_labels)

\* test(rearrange_clusters, override) on the object rn: the object after the
\* call and what the call reports; fit_labels is results.labels_ of the fit
test(rn, grps, rearrange_clusters, override, fit_labels) ==
    IF ~override /\ Len(rn.duplicate_h5_groups) > 0
    THEN test_cached(rn, grps, rn.duplicate_h5_groups[Len(rn.duplicate_h5_groups)])
    ELSE test_fit(rn, rearrange_clusters, SliceCols(rn.data_slice, NumFeat), fit_labels)

\* a test that leaves a group behind in the file
TestPersisting(r, rearrange_clusters, override, fit_labels) ==
    /\ runner[r].constructed
    /\ Len(groups) < MaxGroups
    /\ \E res \in {test(runner[r], groups, rearrange_clusters, override, fit_labels)} :
           /\ runner' = [runner EXCEPT ![r] = res.obj]
           /\ out' = [NoOut EXCEPT !.op = "test", !.r = r, !.raised = res.raised,
                         !.rearrange_clusters = rearrange_clusters, !.override = override,
                         !.fitted = res.fitted, !.prev = PrevOf(out)]
    /\ groups' = Append(groups, EmptyGroup)
    /\ UNCHANGED est_n_jobs

Test(r, rearrange_clusters, override, fit_labels) ==
    /\ runner[r].constructed
    /\ \E res \in {test(runner[r], groups, rearrange_clusters, override, fit_labels)} :
           /\ runner' = [runner EXCEPT ![r] = res.obj]
           /\ out' = [NoOut EXCEPT !.op = "test", !.r = r, !.raised = res.raised,
                         !.rearrange_clusters = rearrange_clusters, !.override = override,
                         !.fitted = res.fitted, !.fit_cols = res.fit_cols,
                         !.mean_cols = res.mean_cols, !.ret_labels = res.ret_labels,
                         !.ret_centroids = res.ret_centroids, !.ret_spec = res.ret_spec,
                         !.fit_labels = IF res.fitted THEN fit_labels ELSE None,
                         !.prev = PrevOf(out)]
    /\ UNCHANGED <<est_n_jobs, groups>>

(***************************************************************************)
(* Cluster.delete_results.                                                 *)
(***************************************************************************)
\* a delete_results that forgets the labels only
delete_results_labels_only(rn) == [rn EXCEPT !.labels = None]

\* a delete_results that keeps the reference to the group
delete_results_keeps_group(rn) == [rn EXCEPT !.labels = None, !.mean_resp = None]

delete_results(rn) ==
    [rn EXCEPT !.labels = None, !.mean_resp = None, !.h5_results_grp = NoGroup]

DeleteResults(r) ==
    /\ runner[r].constructed
    /\ runner' = [runner EXCEPT ![r] = delete_results(runner[r])]
    /\ out' = [NoOut EXCEPT !.op = "delete_results", !.r = r, !.prev = PrevOf(out)]
    /\ UNCHANGED <<est_n_jobs, groups>>
(***************************************************************************)
(* Cluster._write_results_chunk.                                           *)
(***************************************************************************)
\* the writes with the completion marker moved before the attributes
WriteStepsMarkerFirst ==
    <<"create_results_group", "completed_positions", "write_source_dset_provenance",
      "write_simple_attrs", "Labels", "write_ind_val_dsets", "Mean_Response",
      "last_pixel">>

\* the writes of _write_results_chunk, in the order of the source
WriteSteps ==
    <<"create_results_group", "write_source_dset_provenance", "write_simple_attrs",
      "Labels", "write_ind_val_dsets", "Mean_Response", "completed_positions",
      "last_pixel">>

AllColumns == [i \in 1..NumFeat |-> i - 1]

\* the group after one write; lines 316-318 link the mean response to the
\* spectroscopic indices of the source dataset
WriteStep(g, step, rn) ==
    CASE step = "create_results_group" -> EmptyGroup
      [] step = "write_source_dset_provenance" -> [g EXCEPT !.provenance = TRUE]
      [] step = "write_simple_attrs" -> [g EXCEPT !.attrs = <<rn.parms_dict>>]
      [] step = "Labels" -> [g EXCEPT !.Labels = rn.labels]
      [] step = "write_ind_val_dsets" -> [g EXCEPT !.spec_dsets = AllColumns]
      [] step = "Mean_Response" -> [g EXCEPT !.Mean_Response = rn.mean_resp]
      [] step = "completed_positions" ->
            [g EXCEPT !.completed_positions = [p \in Positions |-> 1]]
      [] OTHER -> [g EXCEPT !.last_pixel = NumPos]

\* how a write ends: lines 300-304 read the local h5_centroids, which is
\* assigned at line 321 only, so the branch for a selection that is not the
\* whole dataset raises; any write raises when the storage fails (fail_at)
WriteRaises(step, fail_at, rn) ==
    IF step = fail_at THEN "PersistenceError"
    ELSE IF step = "write_ind_val_dsets" /\ rn.num_comps # NumFeat
    THEN "UnboundLocalError"
    ELSE ""

\* the writes from the i-th on: the group they leave and what was raised
RECURSIVE WriteFrom(_, _, _, _, _)
WriteFrom(g, steps, i, fail_at, rn) ==
    IF i > Len(steps) THEN [group |-> g, raised |-> ""]
    ELSE IF WriteRaises(steps[i], fail_at, rn) # ""
    THEN [group |-> g, raised |-> WriteRaises(steps[i], fail_at, rn)]
    ELSE WriteFrom(WriteStep(g, steps[i], rn), steps, i + 1, fail_at, rn)

\* the places where the storage fails: at the creation of the group, before
\* the attributes, before the labels, before the marker and after it; "" is
\* a storage that does not fail
FailPoints(rn) ==
    {"", WriteSteps[1], "write_simple_attrs", "Labels", "completed_positions",
     "last_pixel"}

\* lines 282-334: the group the writes leave is in the file, and the object
\* refers to it, whether the writes were completed or not
write_results_group(rn, grps, written) ==
    [raised |-> written.raised,
     groups |-> Append(grps, written.group),
     obj |-> [rn EXCEPT !.h5_results_grp = Len(grps) + 1],
     created |-> Len(grps) + 1]

\* _write_results_chunk on the object rn, the storage failing at fail_at:
\* the file's groups and the object afterwards
write_results_chunk(rn, grps, fail_at) ==
    IF rn.mean_resp = None
    THEN [raised |-> "AttributeError", groups |-> grps, obj |-> rn, created |-> NoGroup]
    ELSE IF fail_at = WriteSteps[1]
    THEN [raised |-> "PersistenceError", groups |-> grps, obj |-> rn, created |-> NoGroup]
    ELSE write_results_group(rn, grps, WriteFrom(EmptyGroup, WriteSteps, 1, fail_at, rn))

(***************************************************************************)
(* Cluster.compute.                                                        *)
(***************************************************************************)
\* lines 228-229 and 233: the group is written, the results are deleted
\* from memory and the group is returned
compute_written(tested, written) ==
    [obj |-> IF written.raised = "" THEN delete_results(written.obj) ELSE written.obj,
     groups |-> written.groups, raised |-> written.raised, tested |-> tested,
     called_test |-> tested.called,
     ret_group |-> IF written.raised = "" THEN written.created ELSE NoGroup,
     wrote |-> written.created]

\* lines 227-233
compute_write(tested, grps, fail_at) ==
    IF tested.raised # ""
    THEN [obj |-> tested.obj, groups |-> grps, raised |-> tested.raised,
          tested |-> tested, called_test |-> tested.called,
          ret_group |-> NoGroup, wrote |-> NoGroup]
    ELSE IF tested.obj.h5_results_grp = NoGroup
    THEN compute_written(tested, write_results_chunk(tested.obj, grps, fail_at))
    ELSE [obj |-> tested.obj, groups |-> grps, raised |-> "", tested |-> tested,
          called_test |-> tested.called,
          ret_group |-> tested.obj.h5_results_grp, wrote |-> NoGroup]

\* compute when test is not called
not_tested(rn) ==
    [obj |-> rn, raised |-> "", fitted |-> FALSE, fit_cols |-> None,
     mean_cols |-> None, ret_labels |-> None, ret_centroids |-> None, ret_spec |-> None,
     called |-> FALSE]

\* a compute that calls test whatever the object holds
compute_always_tests(rn, grps, rearrange_clusters, override, fit_labels, fail_at) ==
    compute_write(test(rn, grps, rearrange_clusters, override, fit_labels), grps, fail_at)

\* compute(rearrange_clusters, override) on the object rn
compute(rn, grps, rearrange_clusters, override, fit_labels, fail_at) ==
    IF rn.labels = None /\ rn.mean_resp = None
    THEN compute_write(test(rn, grps, rearrange_clusters, override, fit_labels),
                       grps, fail_at)
    ELSE compute_write(not_tested(rn), grps, fail_at)

Compute(r, rearrange_clusters, override, fit_labels, fail_at) ==
    /\ runner[r].constructed
    /\ \E res \in {compute(runner[r], groups, rearrange_clusters, override,
                             fit_labels, fail_at)} :
           /\ Len(res.groups) <= MaxGroups
           /\ runner' = [runner EXCEPT ![r] = res.obj]
           /\ groups' = res.groups
           /\ out' = [NoOut EXCEPT !.op = "compute", !.r = r, !.raised = res.raised,
                         !.rearrange_clusters = rearrange_clusters, !.override = override,
                         !.fitted = res.tested.fitted, !.fit_cols = res.tested.fit_cols,
                         !.mean_cols = res.tested.mean_cols,
                         !.tested = res.called_test, !.fail_at = fail_at,
                         !.ret_group = res.ret_group, !.wrote = res.wrote,
                         !.fit_labels = IF res.tested.fitted THEN fit_labels ELSE None,
                         !.prev = PrevOf(out)]
    /\ UNCHANGED est_n_jobs

(***************************************************************************)
(* The calls a program makes.                                              *)
(***************************************************************************)
EstTypes == allowed_methods \cup {"DBSCAN"}

\* label vectors a fit returns: every cluster used, every cluster used in
\* another order, a cluster index left out, a single cluster
FitSpread == [p \in Positions |-> (p - 1) % NumClusters]
FitRotated == [p \in Positions |-> (p + 1) % NumClusters]
FitGap == [p \in Positions |-> IF p = 1 THEN 0 ELSE NumClusters - 1]
FitSingle == [p \in Positions |-> 0]

Init ==
    /\ runner = [r \in Runners |-> NoRunner]
    /\ est_n_jobs = [t \in EstTypes |-> 0]
    /\ groups = << >>
    /\ out = NoOut

\* Spec: one program driving one runner at a time (a new Cluster object may
\* take the place of the old one, and then finds what the old one wrote)
\* on the whole dataset; the storage never fails
Next ==
    \/ \E est \in {"KMeans", "DBSCAN"} : Construct(1, est, SelNone, 1)
    \/ \E rc \in BOOLEAN, ov \in BOOLEAN, fl \in {FitRotated, FitSingle} :
          Test(1, rc, ov, fl)
    \/ \E rc \in BOOLEAN, ov \in BOOLEAN, fl \in {FitRotated, FitSingle} :
          Compute(1, rc, ov, fl, "")
    \/ DeleteResults(1)

Spec == Init /\ [][Next]_vars

\* SpecCores: the same program choosing the number of cores of each runner
NextCores ==
    \/ \E c \in {1, 2} : Construct(1, "KMeans", SelNone, c)
    \/ \E ov \in BOOLEAN : Test(1, FALSE, ov, FitSpread)
    \/ \E ov \in BOOLEAN : Compute(1, FALSE, ov, FitSpread, "")
    \/ DeleteResults(1)

SpecCores == Init /\ [][NextCores]_vars

\* SpecSel: the same program choosing the component selection of each runner
Selections ==
    {SelNone, SelInt(2), SelInt(NumFeat - 1), SelInt(NumFeat + 1),
     SelSlice(1, NumFeat - 1, 1), SelSlice(0, NumFeat, 2),
     SelList(<<0, 2>>), SelList(<<0, 2, 3>>), SelList(<<0, NumFeat>>)}

NextSel ==
    \/ \E sel \in Selections : Construct(1, "KMeans", sel, 1)
    \/ \E rc \in BOOLEAN, ov \in BOOLEAN : Test(1, rc, ov, FitRotated)
    \/ \E rc \in BOOLEAN : Compute(1, rc, FALSE, FitRotated, "")
    \/ DeleteResults(1)

SpecSel == Init /\ [][NextSel]_vars

\* SpecWrite: the same program on a storage whose writes may fail
NextWrite ==
    \/ \E sel \in {SelNone, SelInt(2)} : Construct(1, "KMeans", sel, 1)
    \/ \E ov \in BOOLEAN : Test(1, FALSE, ov, FitSpread)
    \/ \E ov \in BOOLEAN, fail_at \in FailPoints(runner[1]) :
          Compute(1, FALSE, ov, FitSpread, fail_at)
    \/ DeleteResults(1)

SpecWrite == Init /\ [][NextWrite]_vars

\* SpecFit: the same program on the whole dataset with an estimator whose
\* fit may use every cluster index, leave one out, or use a single one
NextFit ==
    \/ Construct(1, "KMeans", SelNone, 1)
    \/ \E rc \in BOOLEAN, ov \in BOOLEAN, fl \in {FitSpread, FitGap, FitSingle} :
          Test(1, rc, ov, fl)
    \/ \E rc \in BOOLEAN, fl \in {FitSpread, FitGap, FitSingle} :
          Compute(1, rc, FALSE, fl, "")
    \/ DeleteResults(1)

SpecFit == Init /\ [][NextFit]_vars

\* SpecReorder: calls of reorder_clusters on its own. A call is given one
\* label in 0..K-1 per position and K centroid rows, K up to NumClusters;
\* a row is a value of 0..NumClusters added to the offsets of the columns
CentroidRow(v) == [j \in 1..SpecWidth |-> v + ColOffset(j - 1)]

InitReorder ==
    /\ runner = [r \in Runners |-> NoRunner]
    /\ est_n_jobs = [t \in EstTypes |-> 0]
    /\ groups = << >>
    /\ \E K \in 1..NumClusters :
          \E l \in [1..NumPos -> 0..(K - 1)], v \in [1..K -> 0..NumClusters] :
             out = [NoOut EXCEPT !.op = "reorder_args", !.arg_labels = l,
                                 !.arg_mean = [c \in 1..K |-> CentroidRow(v[c])]]

\* new_labels, new_mean_response = reorder_clusters(labels, mean_response)
ReorderClusters ==
    /\ out.op = "reorder_args"
    /\ \E res \in {reorder_clusters(out.arg_labels, out.arg_mean)} :
           out' = [out EXCEPT !.op = "reorder_clusters",
                              !.raised = IF res.err THEN "ValueError" ELSE "",
                              !.ret_labels = IF res.err THEN None ELSE res.labels,
                              !.ret_centroids = IF res.err THEN None ELSE res.mean,
                              !.prev = PrevOf(out)]
    /\ UNCHANGED <<runner, est_n_jobs, groups>>

NextReorder == ReorderClusters

SpecReorder == InitReorder /\ [][NextReorder]_vars

\* SpecMean: calls of _get_mean_response on their own. A call is given a label
\* vector and works on the selected columns; one worker per cluster index
\* computes the row of that cluster, the workers complete in any order
MeanCols == {AllColumns, <<0, 2>>, <<1>>}

InitMean ==
    /\ runner = [r \in Runners |-> NoRunner]
    /\ est_n_jobs = [t \in EstTypes |-> 0]
    /\ groups = << >>
    /\ \E l \in [1..NumPos -> 0..(NumClusters - 1)], cols \in MeanCols :
          out = [NoOut EXCEPT !.op = "mean_args", !.arg_labels = l, !.mean_cols = cols]

\* the worker of one of np.arange(num_clusts) returns (lines 252-260)
WorkerDone(clust_ind) ==
    /\ out.op \in {"mean_args", "mean_pool"}
    /\ clust_ind < NumUnique(out.arg_labels)
    /\ \A i \in DOMAIN out.pool : out.pool[i].clust_ind # clust_ind
    /\ out' = [out EXCEPT !.op = "mean_pool",
                          !.pool = Append(out.pool,
                                     [clust_ind |-> clust_ind,
                                      res |-> mean_resp_for_cluster(clust_ind, out.arg_labels,
                                                                    out.mean_cols)])]
    /\ UNCHANGED <<runner, est_n_jobs, groups>>

\* every worker has returned: mean_resp = np.array(parallel_compute(...))
GetMeanResponse ==
    /\ out.op \in {"mean_args", "mean_pool"}
    /\ Len(out.pool) = NumUnique(out.arg_labels)
    /\ out' = [out EXCEPT !.op = "get_mean_response",
                          !.ret_centroids = parallel_compute(out.pool)]
    /\ UNCHANGED <<runner, est_n_jobs, groups>>

NextMean ==
    \/ \E clust_ind \in 0..(NumClusters - 1) : WorkerDone(clust_ind)
    \/ GetMeanResponse

SpecMean == InitMean /\ [][NextMean]_vars

\* SpecPair: one program holding several runners on the same dataset and
\* estimator type, constructed with the whole dataset, a prefix of all but
\* one column or a prefix of two columns; it calls compute(override=False)
\* on them one call after the other
PairSelections == {SelNone, SelInt(NumFeat - 1), SelInt(2)}

NextPair ==
    \/ \E r \in Runners, sel \in PairSelections : Construct(r, "KMeans", sel, 1)
    \/ \E r \in Runners : Compute(r, TRUE, FALSE, FitSpread, "")

SpecPair == Init /\ [][NextPair]_vars

(***************************************************************************)
(* The properties.                                                         *)
(***************************************************************************)
\* the last of the duplicate groups the object found when it was constructed
LastDuplicate(rn) == rn.duplicate_h5_groups[Len(rn.duplicate_h5_groups)]

\* C1: two consecutive calls of compute with override=False on one runner,
\* both returning, return the same group, and the second call leaves the
\* groups of the file as they were (no duplicate group is created).
C1_ComputeIdempotent ==
    [][(/\ out.op = "compute" /\ ~out.override /\ out.raised = ""
        /\ out'.op = "compute" /\ ~out'.override /\ out'.raised = ""
        /\ out'.r = out.r)
       => (out'.ret_group = out.ret_group /\ groups' = groups)]_vars

\* C2: a compute with override=False that follows a test on the same runner
\* performs no estimator fit; the labels and the mean response it writes are
\* the ones the runner cached, both of them when it returns (for a test that
\* fitted and returned: the labels and centroids that test returned).
C2_TestThenCompute ==
    [][(out.op = "test" /\ out'.op = "compute" /\ out'.r = out.r /\ ~out'.override)
       => /\ ~out'.fitted
          /\ out'.wrote # NoGroup =>
                /\ groups'[out'.wrote].Labels \in {None, runner[out.r].labels}
                /\ groups'[out'.wrote].Mean_Response \in {None, runner[out.r].mean_resp}
                /\ out'.raised = "" =>
                      /\ groups'[out'.wrote].Labels = runner[out.r].labels
                      /\ groups'[out'.wrote].Mean_Response = runner[out.r].mean_resp
                /\ (out'.raised = "" /\ out.fitted /\ out.raised = "") =>
                      /\ groups'[out'.wrote].Labels = out.ret_labels
                      /\ groups'[out'.wrote].Mean_Response = out.ret_centroids]_vars

\* a compute without override wrote, without a fit, what the test before it
\* had fitted and returned
C2_Witness ==
    /\ out.op = "compute" /\ ~out.override /\ out.raised = ""
    /\ ~out.fitted /\ out.wrote # NoGroup
    /\ out.prev.op = "test" /\ out.prev.r = out.r
    /\ out.prev.fitted /\ out.prev.raised = ""

C4_TestWritesNothing ==
    [][/\ out'.op = "test" => groups' = groups
       /\ groups' # groups =>
             /\ out'.op = "compute"
             /\ Len(groups') = Len(groups) + 1
             /\ SubSeq(groups', 1, Len(groups)) = groups]_vars

\* a test with override=True raised on a runner that has a duplicate group
C4_Witness ==
    /\ out.op = "test" /\ out.override /\ out.raised # "" /\ out.fitted
    /\ Len(runner[out.r].duplicate_h5_groups) > 0
    /\ Len(groups) > 0

\* C5: a compute with override=True that returns has fitted the estimator,
\* has written a group, and returns that group, which did not exist before
\* the call.
C5_OverrideRecomputes ==
    [][(out'.op = "compute" /\ out'.override /\ out'.raised = "")
       => /\ out'.fitted
          /\ out'.wrote # NoGroup
          /\ out'.ret_group = out'.wrote
          /\ out'.ret_group > Len(groups)]_vars

C7_ComputeFreesCache ==
    [][/\ (out'.op = "compute" /\ out'.raised = "" /\ out'.wrote # NoGroup) =>
             /\ runner'[out'.r].labels = None
             /\ runner'[out'.r].mean_resp = None
             /\ runner'[out'.r].h5_results_grp = NoGroup
       /\ (/\ out.op = "compute" /\ out.raised = "" /\ out.wrote # NoGroup
           /\ out'.op = "compute" /\ out'.r = out.r) => out'.tested]_vars

\* a compute that followed a compute that had written a group called test
C7_Witness ==
    /\ out.op = "compute" /\ out.tested
    /\ out.prev.op = "compute" /\ out.prev.r = out.r
    /\ out.prev.raised = "" /\ out.prev.wrote # NoGroup
    /\ runner[out.r].labels = None /\ runner[out.r].mean_resp = None

\* two parameter snapshots that differ at most in the number of cores
SameButCores(a, b) == [a EXCEPT !.n_jobs = 0] = [b EXCEPT !.n_jobs = 0]

\* C8: a runner that has been constructed holds, among its duplicates, every
\* complete group whose attributes equal its parameter snapshot in all but
\* the number of cores.
C8_CoresNotInFingerprint ==
    (out.op = "construct" /\ out.raised = "") =>
        \A g \in DOMAIN groups :
            (/\ groups[g].completed_positions = [p \in 1..NumPos |-> 1]
             /\ SameButCores(groups[g].attrs[1], runner[out.r].parms_dict))
            => \E i \in DOMAIN runner[out.r].duplicate_h5_groups :
                   runner[out.r].duplicate_h5_groups[i] = g

\* C9: a test that fitted and returned has fitted on the selected columns,
\* averaged the selected columns, and reshaped the centroids over the
\* spectroscopic coordinates of the selected columns.
C9_SelectionConsistent ==
    (out.op = "test" /\ out.fitted /\ out.raised = "") =>
        /\ out.fit_cols = SliceCols(runner[out.r].data_slice, NumFeat)
        /\ out.mean_cols = SliceCols(runner[out.r].data_slice, NumFeat)
        /\ out.ret_spec = [i \in DOMAIN out.fit_cols |-> SpecInds(out.fit_cols[i])]

\* C10: a constructor called with a list of column indices of the dataset
\* returns, and the snapshot of the runner records that list as
\* spectral_components.
C10_ListSelectionAccepted ==
    (/\ out.op = "construct" /\ out.estimator \in allowed_methods
     /\ out.num_comps.kind = "list"
     /\ \A i \in DOMAIN out.num_comps.inds : out.num_comps.inds[i] \in 0..(NumFeat - 1))
    => /\ out.raised = ""
       /\ runner[out.r].parms_dict.spectral_components.kind = "list"
       /\ runner[out.r].parms_dict.spectral_components.inds = out.num_comps.inds

\* C11: the labels and centroids a test returns, and the labels and mean
\* response of every group in the file, have as many distinct label values as
\* centroid rows.
C11_Cardinality ==
    /\ (out.op = "test" /\ out.raised = "") =>
          Cardinality({out.ret_labels[p] : p \in DOMAIN out.ret_labels})
             = Len(out.ret_centroids)
    /\ \A g \in DOMAIN groups :
          (groups[g].Labels # None /\ groups[g].Mean_Response # None) =>
             Cardinality({groups[g].Labels[p] : p \in DOMAIN groups[g].Labels})
                = Len(groups[g].Mean_Response)

\* a test returned labels that leave a cluster index out, next to a group
\* that holds such labels
C11_Witness ==
    /\ out.op = "test" /\ out.raised = "" /\ out.fitted
    /\ \E c \in 0..(NumClusters - 1) :
          /\ \A p \in DOMAIN out.ret_labels : out.ret_labels[p] # c
          /\ \E p \in DOMAIN out.ret_labels : out.ret_labels[p] > c
    /\ \E g \in DOMAIN groups : groups[g].Labels = out.ret_labels

\* C12: a call of reorder_clusters that returns gives every position a label
\* of the label set, and two positions share a label after the call exactly
\* when they shared one before it.
C12_ReorderPreservesPartition ==
    (out.op = "reorder_clusters" /\ out.raised = "") =>
        /\ Len(out.ret_labels) = Len(out.arg_labels)
        /\ \A p \in DOMAIN out.arg_labels :
              out.ret_labels[p] \in 0..(Len(out.arg_mean) - 1)
        /\ \A p, q \in DOMAIN out.arg_labels :
              (out.ret_labels[p] = out.ret_labels[q])
                 <=> (out.arg_labels[p] = out.arg_labels[q])

\* a call on three clusters, each used, returned labels that differ from the
\* ones it was given
C12_Witness ==
    /\ out.op = "reorder_clusters" /\ out.raised = ""
    /\ Len(out.arg_mean) = NumClusters
    /\ Cardinality({out.arg_labels[p] : p \in DOMAIN out.arg_labels}) = NumClusters
    /\ out.ret_labels # out.arg_labels

C15_DeleteResultsAnywhere ==
    [][(out'.op = "delete_results") =>
          /\ out'.raised = ""
          /\ runner'[out'.r].labels = None
          /\ runner'[out'.r].mean_resp = None
          /\ runner'[out'.r].h5_results_grp = NoGroup
          /\ groups' = groups
          /\ (out.op = "delete_results" /\ out.r = out'.r) => runner' = runner]_vars

\* delete_results was called right after a compute that raised, with a group
\* in the file
C15_Witness ==
    /\ out.op = "delete_results" /\ out.raised = ""
    /\ out.prev.op = "compute" /\ out.prev.raised # ""
    /\ groups # << >>
    /\ runner[out.r].labels = None /\ runner[out.r].h5_results_grp = NoGroup

\* C16: a group written by compute(rearrange_clusters=True) holds the
\* reordered labels and mean response of the fit, one written by
\* compute(rearrange_clusters=False) holds the fit's own labels and their mean
\* response, whether the fit was made by this compute or by the test called
\* just before it. (The code does not satisfy this.)
C16_ComputeDecidesOrder ==
    [][(/\ out'.op = "compute" /\ out'.raised = "" /\ out'.wrote # NoGroup
        /\ \/ out'.fitted
           \/ (out.op = "test" /\ out.r = out'.r /\ out.fitted /\ ~out'.tested)) =>
          LET raw == IF out'.fitted THEN out'.fit_labels ELSE out.fit_labels
              cols == IF out'.fitted THEN out'.fit_cols ELSE out.fit_cols
              mean == get_mean_response(raw, cols)
              canonical == reorder_clusters(raw, mean)
              written == groups'[out'.wrote]
          IN  IF out'.rearrange_clusters
              THEN ~canonical.err =>
                      /\ written.Labels = canonical.labels
                      /\ written.Mean_Response = canonical.mean
              ELSE /\ written.Labels = raw
                   /\ written.Mean_Response = mean]_vars

\* C17: when reorder_clusters returns, the centroid row found under the new
\* label of a position is the row that was under its old label, and the rows
\* of the new centroid array are the rows of the old one in another order.
C17_CentroidsFollowLabels ==
    (out.op = "reorder_clusters" /\ out.raised = "") =>
        /\ \A p \in DOMAIN out.arg_labels :
              out.ret_centroids[out.ret_labels[p] + 1]
                 = out.arg_mean[out.arg_labels[p] + 1]
        /\ Len(out.ret_centroids) = Len(out.arg_mean)
        /\ \A c \in DOMAIN out.arg_mean :
              Cardinality({d \in DOMAIN out.ret_centroids :
                              out.ret_centroids[d] = out.arg_mean[c]})
                 = Cardinality({d \in DOMAIN out.arg_mean :
                                   out.arg_mean[d] = out.arg_mean[c]})

\* a call on three pairwise different centroid rows, each labelling a
\* position, returned the rows in another order
C17_Witness ==
    /\ out.op = "reorder_clusters" /\ out.raised = ""
    /\ Len(out.arg_mean) = NumClusters
    /\ \A c, d \in DOMAIN out.arg_mean : c # d => out.arg_mean[c] # out.arg_mean[d]
    /\ \A c \in DOMAIN out.arg_mean :
          \E p \in DOMAIN out.arg_labels : out.arg_labels[p] = c - 1
    /\ out.ret_centroids # out.arg_mean

\* C18: the list reorder_clusters builds from the linkage rows holds every
\* cluster index 0..K-1 once; the new label of a cluster is its place in the
\* list, which is the label the call gives to the positions of the cluster; a
\* cluster that is a child in an earlier linkage row than another gets the
\* smaller new label, and the two clusters of the first row get 0 and 1.
C18_OrderFollowsLinkage ==
    (out.op = "reorder_clusters" /\ out.raised = "") =>
        \A Z \in {linkage(out.arg_mean)} :
        \A order \in {new_cluster_order(Z, Len(out.arg_mean))} :
            LET K == Len(out.arg_mean)
                NewLabel(a) == (CHOOSE i \in DOMAIN order : order[i] = a) - 1
                Row(a) == CHOOSE i \in DOMAIN Z : Z[i][1] = a \/ Z[i][2] = a
            IN  /\ Len(order) = K
                /\ \A a \in 0..(K - 1) :
                      Cardinality({i \in DOMAIN order : order[i] = a}) = 1
                /\ \A a \in 0..(K - 1) :
                      Cardinality({i \in DOMAIN Z : Z[i][1] = a})
                         + Cardinality({i \in DOMAIN Z : Z[i][2] = a}) = 1
                /\ \A p \in DOMAIN out.arg_labels :
                      out.ret_labels[p] = NewLabel(out.arg_labels[p])
                /\ \A a, b \in 0..(K - 1) :
                      Row(a) < Row(b) => NewLabel(a) < NewLabel(b)
                /\ {NewLabel(Z[1][1]), NewLabel(Z[1][2])} = {0, 1}

\* a call on three clusters whose first merge is not of the clusters 0 and 1:
\* the positions of the two merged clusters got the labels 0 and 1
C18_Witness ==
    /\ out.op = "reorder_clusters" /\ out.raised = ""
    /\ Len(out.arg_mean) = NumClusters
    /\ {linkage(out.arg_mean)[1][1], linkage(out.arg_mean)[1][2]} # {0, 1}
    /\ \E p, q \in DOMAIN out.arg_labels :
          /\ out.arg_labels[p] = linkage(out.arg_mean)[1][1]
          /\ out.arg_labels[q] = linkage(out.arg_mean)[1][2]
          /\ {out.ret_labels[p], out.ret_labels[q]} = {0, 1}
          /\ {out.arg_labels[p], out.arg_labels[q]} # {0, 1}

\* C19: every group reference a compute returns is to a group that holds the
\* completion marker, also when an earlier write of the runner raised after
\* it had created its group. (The code does not satisfy this.)
C19_ReturnedGroupComplete ==
    (out.op = "compute" /\ out.raised = "" /\ out.ret_group # NoGroup) =>
        groups[out.ret_group].completed_positions = CompleteMarker

\* C20: a test that raises leaves the labels and the mean response the runner
\* holds as they were before the call. (The code does not satisfy this.)
C20_FailedTestLeavesNothing ==
    [][(out'.op = "test" /\ out'.raised # "") =>
          /\ runner'[out'.r].labels = runner[out'.r].labels
          /\ runner'[out'.r].mean_resp = runner[out'.r].mean_resp]_vars

\* C21: two constructed runners whose selections resolve to different
\* columns hold different spectral_components entries in their parameter
\* snapshots. (The code does not satisfy this.)
C21_SelectionInFingerprint ==
    \A r1, r2 \in Runners :
        (/\ runner[r1].constructed /\ runner[r2].constructed
         /\ SliceCols(runner[r1].data_slice, NumFeat)
               # SliceCols(runner[r2].data_slice, NumFeat))
        => runner[r1].parms_dict.spectral_components
              # runner[r2].parms_dict.spectral_components

\* C22: when a compute(override=False) that wrote a group and returned is
\* followed directly by a compute(override=False) of another runner with
\* the same parameter snapshot, the second call writes nothing and returns
\* the group of the first. (The code does not satisfy this.)
C22_SerialComputesShareGroup ==
    [][(/\ out.op = "compute" /\ out.raised = "" /\ out.wrote # NoGroup
        /\ out'.op = "compute" /\ out'.r # out.r /\ ~out.override /\ ~out'.override
        /\ runner[out'.r].parms_dict = runner[out.r].parms_dict) =>
          /\ out'.raised = ""
          /\ out'.wrote = NoGroup
          /\ groups' = groups
          /\ out'.ret_group = out.ret_group]_vars

\* C23: after every constructor, test, compute and delete_results, returned
\* or raised, each runner holds both labels and mean response or neither, and
\* a group a compute wrote holds both the labels and the mean response.
C23_LabelsAndMeanTogether ==
    /\ \A r \in Runners : (runner[r].labels = None) <=> (runner[r].mean_resp = None)
    /\ (out.op = "compute" /\ out.wrote # NoGroup) =>
          /\ groups[out.wrote].Labels # None
          /\ groups[out.wrote].Mean_Response # None

\* a test raised inside reorder_clusters on a runner that held nothing: the
\* runner now holds the labels and the mean response of the fit
C23_Witness ==
    /\ out.op = "test" /\ out.raised # "" /\ out.fitted
    /\ out.prev.op \in {"construct", "delete_results"}
    /\ runner[out.r].labels # None /\ runner[out.r].mean_resp # None
====
